---- MODULE Spec2Model ----
(***************************************************************************)
(* LogData (src/src/logdata/src/logdata.cpp): the facade that owns the     *)
(* attached file, runs the depth-1 operation queue against the indexing    *)
(* worker thread and reacts to file-watcher notifications.                 *)
(*                                                                         *)
(* The facade's public functions and slots run on the thread that owns the *)
(* LogData object; each of them is one atomic action.  The two signals     *)
(* that drive the slots (FileWatcher::fileChanged, connected with          *)
(* Qt::QueuedConnection, and LogDataWorkerThread::indexingFinished,        *)
(* emitted from the worker thread) are posted to that thread's event       *)
(* queue, which is FIFO.                                                   *)
(*                                                                         *)
(* LogDataWorkerThread, IndexingData and FileWatcher are not part of the   *)
(* sources at hand; they are modelled from the specification (sections     *)
(* 4.2, 4.3 and 4.4).                                                      *)
(***************************************************************************)
EXTENDS Integers, Sequences, FiniteSets, TLC

\* ------------------------------------------------------------- bounds
\* Largest size (in bytes) the file on disk may take.
MaxSize == 2
\* Number of changes the environment makes to the file (its modification
\* time is the number of changes so far).
MaxMTime == 2
\* Number of watcher notifications that may wait in the facade's event
\* queue; the watcher holds further reports back until one is handled.
MaxEvents == 1
\* Largest size (in bytes) of the files whose lines are read.
MaxLen == 3

\* ------------------------------------------------------------- values
Paths == {"a.log"}
NoEncoding == "none"
Latin1 == "ISO-8859-1"
Encodings == {"UTF-16"}

NoOp == [type |-> "none", arg |-> "none"]
AttachOperation(fileName) == [type |-> "Attach", arg |-> fileName]
FullIndexOperation(forcedEncoding) == [type |-> "FullIndex", arg |-> forcedEncoding]
PartialIndexOperation == [type |-> "PartialIndex", arg |-> "none"]

\* MonitoredFileStatus
Unchanged == "Unchanged"
DataAdded == "DataAdded"
Truncated == "Truncated"

\* LoadingStatus
Successful == "Successful"
Interrupted == "Interrupted"
NoMemory == "NoMemory"
LoadingStatus == {Successful, Interrupted, NoMemory}

\* QDateTime(): the invalid date
NoDate == -1

\* attached_file_ == nullptr
NoFile == [null |-> TRUE, fileName |-> "", open |-> FALSE, stale |-> FALSE, size |-> 0]

VARIABLES
    attached_file_,      \* the QFile held by the facade (NoFile: nullptr)
    currentOperation_,   \* the operation handed to the worker, or NoOp
    nextOperation_,      \* the operation waiting for the current one, or NoOp
    fileChangedOnDisk_,  \* MonitoredFileStatus
    lastModifiedDate_,   \* NoDate or a modification time
    indexing_data_,      \* IndexingData shared with the worker: [size]
    workerThread_,       \* LogDataWorkerThread
    watcher,             \* FileWatcher: [files, dirty]
    eventQueue,          \* queued signals waiting for the facade's thread
    fileSize,            \* size of the file the path names on disk
    fileBytes,           \* its bytes
    fileMTime,           \* its modification time
    crashed,             \* the process dereferenced a null attached_file_
    last,                \* what the last step called, enqueued, emitted, threw
    lastEnqueued,        \* the last operation enqueued behind the running one
    coalesced,           \* an operation waiting behind the running one was
                         \* replaced by a later one
    swallowed,           \* a growth notification was ignored and the file
                         \* has not changed since
    codec_,              \* the display encoding
    destroyed,           \* the facade has been destroyed
    truncationPending,   \* a truncation was found and no full reindex has
                         \* been handed to the worker since
    reader               \* a line read in progress on the reading thread

vars == <<attached_file_, currentOperation_, nextOperation_, fileChangedOnDisk_,
          lastModifiedDate_, indexing_data_, workerThread_, watcher, eventQueue,
          fileSize, fileBytes, fileMTime, crashed, last, lastEnqueued, coalesced,
          swallowed, codec_, destroyed, truncationPending, reader>>

\* what the operation queue, the worker and the watcher leave alone
readVars == <<codec_, reader>>

\* the life of the facade
lifeVars == <<crashed, destroyed>>

facadeVars == <<attached_file_, currentOperation_, nextOperation_,
                fileChangedOnDisk_, lastModifiedDate_>>

\* ------------------------------------------------------------- events
FileChangedEvent(path) == [sig |-> "fileChanged", arg |-> path]
IndexingFinishedEvent(status) == [sig |-> "indexingFinished", arg |-> status]

\* the number of watcher notifications in an event queue
NbNotifications(queue) ==
    Cardinality({i \in 1..Len(queue) : queue[i].sig = "fileChanged"})

\* signals the facade emits to its consumers
FileChangedSignal(status) == [sig |-> "fileChanged", arg |-> status]
LoadingFinishedSignal(status) == [sig |-> "loadingFinished", arg |-> status]

\* The record of a step: the function of the facade that ran ("none" for a
\* step of the worker, of the watcher or of the environment), what it passed
\* to enqueueOperation, the signals it emitted to the consumers, what it
\* threw, for indexingFinished, whether the operation that finished had seen
\* a waiting operation replaced, for reload, the calls it made in the order
\* it made them, and, for a line read, its arguments, what it returned and
\* the calls it made on the attached file.
Step(call, enqueued, emitted, thrown) ==
    [call |-> call, enqueued |-> enqueued, emitted |-> emitted, thrown |-> thrown,
     coalesced |-> FALSE, order |-> <<>>,
     args |-> <<>>, returned |-> <<>>, touched |-> <<>>]
NoStep == Step("none", NoOp, <<>>, "none")

Max(a, b) == IF a > b THEN a ELSE b

\* ------------------------------------------------ the file on disk
\* QFile::size(): the size of the file the handle holds when it is open (a
\* handle opened before the path was given to another file keeps the old
\* file), the size of the file the name designates when it is not.
QFileSize(file) ==
    IF file.open /\ file.stale THEN file.size ELSE fileSize

\* new QFile( name ) followed by open( ReadOnly ); the file exists and is
\* readable, so the handle is open on the file the name designates now.
OpenFile(name) ==
    [null |-> FALSE, fileName |-> name, open |-> TRUE, stale |-> FALSE, size |-> 0]

\* What a change of the file the path names does to a handle: an open handle
\* on the replaced file keeps that file and its size.
Detach(file) ==
    IF file.null \/ ~file.open \/ file.stale
    THEN file
    ELSE [file EXCEPT !.stale = TRUE, !.size = fileSize]

\* The bytes a file may hold: the line terminator, a tabulation, a letter.
LF == 10
TAB == 9
LetterA == 97
ByteValues == {LF, TAB, LetterA}

\* A file of n empty lines.
EmptyLines(n) == [i \in 1..n |-> LF]

\* Every content of at most n bytes.
Contents(n) == UNION {[1..k -> ByteValues] : k \in 0..n}

\* ------------------------------------------------ IndexingData (4.2)
\* size_indexed and line_ends; nb_lines is the length of line_ends.
EmptyIndexingData == [size |-> 0, line_ends |-> <<>>, forced |-> NoEncoding]

IndexingData_getNbLines(data) == Len(data.line_ends)

\* pos_for_line: the offset of the end of the given line (line_ends[line],
\* lines counted from 0).  Past the last line the result is not defined:
\* what is returned is whatever the caller gives as garbage.
IndexingData_getPosForLine(data, line, garbage) ==
    IF line < Len(data.line_ends) THEN data.line_ends[line + 1] ELSE garbage

IndexingData_getSize(data) == data.size

IndexingData_reset(data) == EmptyIndexingData

\* ------------------------------------------ LogDataWorkerThread (4.3)
\* wd is the pair of the worker thread and the IndexingData it was
\* constructed on (workerThread_( &indexing_data_ )).
IdleWorker ==
    [fileName |-> "", requests |-> <<>>, phase |-> "idle", scanned |-> 0,
     found |-> <<>>, interruptRequested |-> FALSE]

IndexAllRequest(forcedEncoding) == [kind |-> "indexAll", encoding |-> forcedEncoding]
IndexAdditionalRequest == [kind |-> "indexAdditionalLines", encoding |-> NoEncoding]

\* attach(path): sets the source path, resets Indexing Data.
Worker_attachFile(wd, fileName) ==
    [worker |-> [wd.worker EXCEPT !.fileName = fileName],
     data |-> IndexingData_reset(wd.data)]

\* index_all(forced_encoding): requests a full reindex from byte 0.
Worker_indexAll(wd, forcedEncoding) ==
    [wd EXCEPT !.worker.requests = Append(@, IndexAllRequest(forcedEncoding))]

\* index_additional(): requests a partial reindex from size_indexed.
Worker_indexAdditionalLines(wd) ==
    [wd EXCEPT !.worker.requests = Append(@, IndexAdditionalRequest)]

\* interrupt(): asks the current pass to abort at the next safe point; with
\* no pass running there is nothing to abort.
Worker_interrupt(worker) ==
    [worker EXCEPT !.interruptRequested = (worker.phase # "idle")]

\* ------------------------------------------------ FileWatcher (4.4)
FileWatcher_addFile(w, fileName) ==
    [w EXCEPT !.files = @ \cup {fileName}]

\* A file that is no longer watched is no longer reported.
FileWatcher_removeFile(w, fileName) ==
    [w EXCEPT !.files = @ \ {fileName}, !.dirty = FALSE]

\* ------------------------------------------------ LogData, private
\* AttachOperation::doStart, FullIndexOperation::doStart and
\* PartialIndexOperation::doStart
DoStart(operation, wd) ==
    CASE operation.type = "Attach" ->
            Worker_indexAll(Worker_attachFile(wd, operation.arg), NoEncoding)
      [] operation.type = "FullIndex" ->
            Worker_indexAll(wd, operation.arg)
      [] operation.type = "PartialIndex" ->
            Worker_indexAdditionalLines(wd)

\* LogData::startOperation on the given currentOperation_
StartOperation(current, wd) ==
    IF current # NoOp THEN DoStart(current, wd) ELSE wd

\* An enqueueOperation that keeps the operation already waiting.
EnqueueOperation_KeepFirst(q, new_operation) ==
    IF q.current = NoOp
    THEN [current |-> new_operation,
          next |-> q.next,
          wd |-> StartOperation(new_operation, q.wd)]
    ELSE IF q.next = NoOp THEN [q EXCEPT !.next = new_operation] ELSE q

\* An enqueueOperation that hands every operation to the worker at once.
EnqueueOperation_AlwaysStart(q, new_operation) ==
    IF q.current = NoOp
    THEN [current |-> new_operation,
          next |-> q.next,
          wd |-> StartOperation(new_operation, q.wd)]
    ELSE [q EXCEPT !.next = new_operation,
                   !.wd = StartOperation(new_operation, q.wd)]

\* An enqueueOperation that makes the operation current without starting it.
EnqueueOperation_NoStart(q, new_operation) ==
    IF q.current = NoOp
    THEN [q EXCEPT !.current = new_operation]
    ELSE [q EXCEPT !.next = new_operation]

\* LogData::enqueueOperation.  q holds currentOperation_, nextOperation_ and
\* the worker with its IndexingData.
EnqueueOperation(q, new_operation) ==
    IF q.current = NoOp
    THEN [current |-> new_operation,
          next |-> q.next,
          wd |-> StartOperation(new_operation, q.wd)]
    ELSE [q EXCEPT !.next = new_operation]

\* LogData::reOpenFile
ReOpenFile(file) == OpenFile(file.fileName)

\* The queue as the facade holds it.
Queue == [current |-> currentOperation_, next |-> nextOperation_,
          wd |-> [worker |-> workerThread_, data |-> indexing_data_]]

\* Writes a queue back to the members.
SetQueue(q) ==
    /\ currentOperation_' = q.current
    /\ nextOperation_' = q.next
    /\ workerThread_' = q.wd.worker
    /\ indexing_data_' = q.wd.data

\* Bookkeeping of the truncations found: one is pending from the notification
\* that finds the file shorter than the index until a full reindex is handed
\* to the worker.
TrackTruncation(truncated) ==
    LET before == workerThread_.requests
        after == workerThread_'.requests
    IN  truncationPending' =
            IF Len(after) > Len(before) /\ after[Len(after)].kind = "indexAll"
            THEN FALSE
            ELSE truncationPending \/ truncated

\* Bookkeeping of the calls of enqueueOperation made since the running
\* operation was started: the last of them, and whether there were several.
CountEnqueue(operation) ==
    IF currentOperation_ = NoOp
    THEN coalesced' = FALSE /\ lastEnqueued' = NoOp
    ELSE coalesced' = (coalesced \/ lastEnqueued # NoOp) /\ lastEnqueued' = operation

\* ------------------------------------------------ LogData, public
\* no line read in progress
IdleReader == [pc |-> "idle", call |-> "none", first |-> 0, last_line |-> 0]

\* LogData::LogData
FacadeInit ==
    /\ attached_file_ = NoFile
    /\ currentOperation_ = NoOp
    /\ nextOperation_ = NoOp
    /\ fileChangedOnDisk_ = Unchanged
    /\ lastModifiedDate_ = NoDate
    /\ indexing_data_ = EmptyIndexingData
    /\ workerThread_ = IdleWorker
    /\ watcher = [files |-> {}, dirty |-> FALSE]
    /\ eventQueue = <<>>
    /\ fileMTime = 0
    /\ crashed = FALSE
    /\ last = NoStep
    /\ coalesced = FALSE
    /\ lastEnqueued = NoOp
    /\ swallowed = FALSE
    /\ codec_ = Latin1
    /\ destroyed = FALSE
    /\ truncationPending = FALSE
    /\ reader = IdleReader

\* A facade is constructed; the file it will be given holds complete empty
\* lines, so that its content is its size.
Init ==
    /\ FacadeInit
    /\ fileSize \in 0..MaxSize
    /\ fileBytes = EmptyLines(fileSize)

\* A facade that takes a new file whatever it holds.
CannotReattach_Never(file) == FALSE

\* The test of LogData::attachFile: a facade that holds a file cannot
\* reattach.
CannotReattach(file) == ~file.null

\* LogData::attachFile
AttachFile(fileName) ==
    /\ ~crashed
    /\ ~destroyed
    /\ IF CannotReattach(attached_file_)
       THEN \* We cannot reattach
            /\ last' = Step("attachFile", NoOp, <<>>, "CantReattachErr")
            /\ UNCHANGED <<attached_file_, currentOperation_, nextOperation_,
                           workerThread_, indexing_data_, coalesced, lastEnqueued>>
       ELSE /\ attached_file_' = OpenFile(fileName)
            /\ SetQueue(EnqueueOperation(Queue, AttachOperation(fileName)))
            /\ CountEnqueue(AttachOperation(fileName))
            /\ last' = Step("attachFile", AttachOperation(fileName), <<>>, "none")
    /\ UNCHANGED <<fileChangedOnDisk_, lastModifiedDate_, watcher, eventQueue,
                   fileSize, fileBytes, fileMTime, crashed, swallowed>>
    /\ UNCHANGED readVars
    /\ UNCHANGED destroyed
    /\ TrackTruncation(FALSE)

\* LogData::interruptLoading
InterruptLoading ==
    /\ ~crashed
    /\ ~destroyed
    /\ workerThread_' = Worker_interrupt(workerThread_)
    /\ last' = Step("interruptLoading", NoOp, <<>>, "none")
    /\ UNCHANGED <<facadeVars, indexing_data_, watcher, eventQueue, fileSize, fileBytes,
                   fileMTime, crashed, coalesced, lastEnqueued, swallowed>>
    /\ UNCHANGED readVars
    /\ UNCHANGED destroyed
    /\ UNCHANGED truncationPending

\* A reload that enqueues the FullIndex before it interrupts the worker.
ReloadCalls_EnqueueFirst == <<"enqueueOperation", "interrupt", "reOpenFile">>

\* The body of LogData::reload: the calls it makes, in order.
ReloadCalls == <<"interrupt", "reOpenFile", "enqueueOperation">>

\* One call of the body of reload, on the attached file and the queue.
ReloadCall(call, s, operation) ==
    CASE call = "interrupt" ->
            [s EXCEPT !.q.wd.worker = Worker_interrupt(@)]
      [] call = "reOpenFile" ->
            [s EXCEPT !.file = ReOpenFile(@)]
      [] call = "enqueueOperation" ->
            [s EXCEPT !.q = EnqueueOperation(@, operation)]

\* The calls of a body made one after the other.
RECURSIVE RunCalls(_, _, _)
RunCalls(calls, s, operation) ==
    IF calls = <<>>
    THEN s
    ELSE RunCalls(Tail(calls), ReloadCall(Head(calls), s, operation), operation)

\* LogData::reload on an attached facade
DoReload(forcedEncoding) ==
    /\ LET s == RunCalls(ReloadCalls, [file |-> attached_file_, q |-> Queue],
                         FullIndexOperation(forcedEncoding))
       IN  /\ attached_file_' = s.file
           /\ SetQueue(s.q)
    /\ CountEnqueue(FullIndexOperation(forcedEncoding))
    /\ UNCHANGED <<fileChangedOnDisk_, lastModifiedDate_, watcher, eventQueue,
                   fileSize, fileBytes, fileMTime, crashed, swallowed>>
    /\ TrackTruncation(FALSE)

\* LogData::reload, called by the owner of the facade
Reload(forcedEncoding) ==
    /\ ~crashed
    /\ ~destroyed
    /\ ~attached_file_.null
    /\ DoReload(forcedEncoding)
    /\ last' = [Step("reload", FullIndexOperation(forcedEncoding), <<>>, "none")
                  EXCEPT !.order = ReloadCalls]
    /\ UNCHANGED readVars
    /\ UNCHANGED destroyed

\* LogData::reload on a facade that was never attached: the worker is
\* interrupted, then reOpenFile dereferences the null attached_file_.
DoReloadUnattached ==
    /\ workerThread_' = Worker_interrupt(workerThread_)
    /\ crashed' = TRUE
    /\ UNCHANGED <<facadeVars, indexing_data_, watcher, eventQueue, fileSize, fileBytes,
                   fileMTime, coalesced, lastEnqueued, swallowed>>
    /\ UNCHANGED truncationPending

\* LogData::reload, called by the owner of a facade that was never attached
ReloadUnattached ==
    /\ ~crashed
    /\ ~destroyed
    /\ attached_file_.null
    /\ DoReloadUnattached
    /\ last' = [Step("reload", NoOp, <<>>, "none")
                  EXCEPT !.order = SubSeq(ReloadCalls, 1, 2)]
    /\ UNCHANGED readVars
    /\ UNCHANGED destroyed

\* ------------------------------------------------ display encoding
\* The encodings a caller asks for: two of one byte a character, one of two.
DisplayEncodings == {Latin1, "ISO-8859-15", "UTF-16"}

\* What of an encoding the offsets of the index depend on: the width of its
\* line feed.
EncodingParameters(codec) == IF codec = "UTF-16" THEN 2 ELSE 1

\* The guess of the detector: the files here are read as Latin-1, which is
\* also the guess before any detection.
IndexingData_getEncodingGuess(data) == Latin1

IndexingData_getForcedEncoding(data) == data.forced

\* The encoding the index was computed with.
CurrentIndexCodec(data) ==
    IF IndexingData_getForcedEncoding(data) # NoEncoding
    THEN IndexingData_getForcedEncoding(data)
    ELSE IndexingData_getEncodingGuess(data)

\* doSetDisplayEncoding without the comparison of the EncodingParameters
DisplayEncodingChange_AnyOtherCodec(codec, data) ==
    IF codec # CurrentIndexCodec(data)
    THEN [reload |-> TRUE,
          forced |-> IF codec = IndexingData_getEncodingGuess(data)
                     THEN NoEncoding ELSE codec]
    ELSE [reload |-> FALSE, forced |-> NoEncoding]

\* What doSetDisplayEncoding decides: whether it reloads, and with which
\* forced encoding.  Two codecs have the same mibEnum when they are the same.
DisplayEncodingChange(codec, data) ==
    IF /\ codec # CurrentIndexCodec(data)
       /\ EncodingParameters(codec) # EncodingParameters(CurrentIndexCodec(data))
    THEN [reload |-> TRUE,
          forced |-> IF codec = IndexingData_getEncodingGuess(data)
                     THEN NoEncoding ELSE codec]
    ELSE [reload |-> FALSE, forced |-> NoEncoding]

\* LogData::doSetDisplayEncoding
SetDisplayEncoding(encoding) ==
    /\ ~crashed
    /\ ~destroyed
    /\ codec_' = encoding
    /\ LET change == DisplayEncodingChange(encoding, indexing_data_)
       IN  CASE ~change.reload ->
                  /\ last' = [Step("setDisplayEncoding", NoOp, <<>>, "none")
                                EXCEPT !.args = <<encoding>>]
                  /\ UNCHANGED <<facadeVars, indexing_data_, workerThread_, watcher,
                                 eventQueue, fileSize, fileBytes, fileMTime,
                                 coalesced, lastEnqueued, swallowed, crashed,
                                 truncationPending>>
             [] change.reload /\ attached_file_.null ->
                  /\ DoReloadUnattached
                  /\ last' = [Step("setDisplayEncoding", NoOp, <<>>, "none")
                                EXCEPT !.args = <<encoding>>,
                                       !.order = SubSeq(ReloadCalls, 1, 2)]
             [] change.reload /\ ~attached_file_.null ->
                  /\ DoReload(change.forced)
                  /\ last' = [Step("setDisplayEncoding",
                                   FullIndexOperation(change.forced), <<>>, "none")
                                EXCEPT !.args = <<encoding>>,
                                       !.order = ReloadCalls]
    /\ UNCHANGED reader
    /\ UNCHANGED destroyed

\* LogData::~LogData.  The body takes the attached file off the watch list
\* and leaves the worker alone (workerThread_.stop() is commented out); then
\* the members are dropped, and with the QObject the signals posted to it.
\* What is dropped is given the value it has in an empty facade; the worker
\* keeps the address of indexing_data_.
Destroy ==
    /\ ~crashed
    /\ ~destroyed
    /\ destroyed' = TRUE
    /\ watcher' = IF attached_file_.null
                  THEN watcher
                  ELSE FileWatcher_removeFile(watcher, attached_file_.fileName)
    /\ attached_file_' = NoFile
    /\ currentOperation_' = NoOp
    /\ nextOperation_' = NoOp
    /\ fileChangedOnDisk_' = Unchanged
    /\ lastModifiedDate_' = NoDate
    /\ eventQueue' = <<>>
    /\ lastEnqueued' = NoOp
    /\ coalesced' = FALSE
    /\ swallowed' = FALSE
    /\ last' = Step("~LogData", NoOp, <<>>, "none")
    /\ UNCHANGED <<workerThread_, indexing_data_, fileSize, fileBytes, fileMTime,
                   crashed, readVars>>
    /\ truncationPending' = FALSE

\* ------------------------------------------------ QFile, QString, codecs
Min(S) == CHOOSE x \in S : \A y \in S : x <= y

\* The bytes an open handle reads.  A handle is left on a replaced file
\* only in Spec, where every file holds complete empty lines.
QFileBytes(file) ==
    IF file.open /\ file.stale THEN EmptyLines(file.size) ELSE fileBytes

\* QFile::seek( pos ) followed by QFile::readLine(): the bytes from pos up to
\* and including the next terminator, or up to the end of the file.
QFile_readLine(bytes, pos) ==
    LET ends == {p \in (pos + 1)..Len(bytes) : bytes[p] = LF}
        stop == IF ends = {} THEN Len(bytes) ELSE Min(ends)
    IN  [i \in 1..(stop - pos) |-> bytes[pos + i]]

\* QFile::seek( pos ) followed by QFile::read( len ): at most len bytes from
\* pos on.
QFile_read(bytes, pos, len) ==
    LET stop == IF pos + len < Len(bytes) THEN pos + len ELSE Len(bytes)
    IN  [i \in 1..(stop - pos) |-> bytes[pos + i]]

\* The character a single-byte codec gives for a byte.
CharOf(byte) ==
    CASE byte = LF -> "\n"
      [] byte = TAB -> "\t"
      [] byte = LetterA -> "a"

\* QTextCodec::toUnicode and QTextDecoder::toUnicode for the single-byte
\* display encodings: one character per byte.
ToUnicode(codec, raw) == [i \in 1..Len(raw) |-> CharOf(raw[i])]

\* QString::chop( 1 ): removes the last character, if there is one.
Chop(string) == [i \in 1..(Len(string) - 1) |-> string[i]]

\* blob.data() + beginning, for length bytes
Slice(blob, beginning, length) == [i \in 1..length |-> blob[beginning + i]]

TabWidth == 8

Spaces(n) == [i \in 1..n |-> " "]

\* untabify: a tabulation advances to the next multiple of TabWidth.
RECURSIVE UntabifyFrom(_, _)
UntabifyFrom(string, done) ==
    IF string = <<>>
    THEN done
    ELSE IF Head(string) = "\t"
    THEN UntabifyFrom(Tail(string),
                      done \o Spaces(TabWidth - (Len(done) % TabWidth)))
    ELSE UntabifyFrom(Tail(string), Append(done, Head(string)))

Untabify(string) == UntabifyFrom(string, <<>>)

\* ------------------------------------------------ LogData, line access
\* What a line read gives: the value returned and the calls made on the
\* attached file.
NoRead(empty) == [returned |-> empty, touched |-> <<>>]

\* A single-line read that refuses only the lines after nb_lines.
LineOutOfBound_OffByOne(data, line) == line > IndexingData_getNbLines(data)

\* The test of doGetLineString, doGetExpandedLineString and doGetLineLength
LineOutOfBound(data, line) == line >= IndexingData_getNbLines(data)

\* The offset doGetLineString and doGetExpandedLineString seek to.
LineStart(data, line, garbage) ==
    IF line = 0 THEN 0 ELSE IndexingData_getPosForLine(data, line - 1, garbage)

\* doGetLineString once the test has let the line through
LineStringAfterTest(file, data, codec, line, garbage) ==
    LET rawString == QFile_readLine(QFileBytes(file), LineStart(data, line, garbage))
    IN  [returned |-> Chop(ToUnicode(codec, rawString)),
         touched |-> <<"seek", "readLine">>]

\* LogData::doGetLineString
DoGetLineString(file, data, codec, line, garbage) ==
    IF LineOutOfBound(data, line)
    THEN NoRead(<<>>)
    ELSE LineStringAfterTest(file, data, codec, line, garbage)

\* LogData::doGetExpandedLineString
DoGetExpandedLineString(file, data, codec, line, garbage) ==
    IF LineOutOfBound(data, line)
    THEN NoRead(<<>>)
    ELSE LET rawString == QFile_readLine(QFileBytes(file),
                                         LineStart(data, line, garbage))
         IN  [returned |-> Chop(Untabify(ToUnicode(codec, rawString))),
              touched |-> <<"seek", "readLine">>]

\* LogData::doGetLineLength
DoGetLineLength(file, data, codec, line, garbage) ==
    IF LineOutOfBound(data, line)
    THEN NoRead(0)
    ELSE LET string == DoGetExpandedLineString(file, data, codec, line, garbage)
         IN  [returned |-> Len(string.returned), touched |-> string.touched]

\* A range read that refuses only the ranges ending after nb_lines.
RangeOutOfBound_OffByOne(data, first_line, number) ==
    number = 0 \/ first_line + number - 1 > IndexingData_getNbLines(data)

\* The tests of doGetLines and doGetExpandedLines: no line asked for, or a
\* last line at or after nb_lines.
RangeOutOfBound(data, first_line, number) ==
    number = 0 \/ first_line + number - 1 >= IndexingData_getNbLines(data)

\* The lines cut out of the blob read by doGetLines and doGetExpandedLines:
\* line k of the range ends at pos_for_line less first_byte, and is decoded
\* without its last byte.
RangeLines(blob, data, codec, first_line, number, first_byte, garbage) ==
    [k \in 1..number |->
        LET line == first_line + k - 1
            beginning == IF k = 1
                         THEN 0
                         ELSE IndexingData_getPosForLine(data, line - 1, garbage)
                                - first_byte
            end == IndexingData_getPosForLine(data, line, garbage) - first_byte
        IN  ToUnicode(codec, Slice(blob, beginning, end - beginning - 1))]

\* doGetLines once the tests have let the range through
LinesAfterTest(file, data, codec, first_line, number, garbage) ==
    LET last_line == first_line + number - 1
        first_byte == LineStart(data, first_line, garbage)
        last_byte == IndexingData_getPosForLine(data, last_line, garbage)
        blob == QFile_read(QFileBytes(file), first_byte, last_byte - first_byte)
    IN  [returned |-> RangeLines(blob, data, codec, first_line, number,
                                 first_byte, garbage),
         touched |-> <<"seek", "read">>]

\* LogData::doGetLines
DoGetLines(file, data, codec, first_line, number, garbage) ==
    IF RangeOutOfBound(data, first_line, number)
    THEN NoRead(<<>>)
    ELSE LinesAfterTest(file, data, codec, first_line, number, garbage)

\* LogData::doGetExpandedLines
DoGetExpandedLines(file, data, codec, first_line, number, garbage) ==
    LET lines == DoGetLines(file, data, codec, first_line, number, garbage)
    IN  [returned |-> [k \in 1..Len(lines.returned) |-> Untabify(lines.returned[k])],
         touched |-> lines.touched]

\* LogData::doGetNbLine
DoGetNbLine(data) == IndexingData_getNbLines(data)

\* The line numbers and the line counts the readers ask for.
LineNumbers == 0..(MaxLen + 1)

\* What pos_for_line may return during a read that goes on after its test
\* (refused is the result of the test) and whose highest lookup is for the
\* given line: anything when that line is past the last one.
GarbageOffsets(refused, data, line) ==
    IF refused \/ line < IndexingData_getNbLines(data) THEN {0} ELSE 0..MaxLen

\* A line read called while no other is in progress.  A read that goes to
\* the file through a null attached_file_ ends the process.
ReadStep(call, args, read) ==
    /\ ~crashed
    /\ ~destroyed
    /\ reader.pc = "idle"
    /\ crashed' = (attached_file_.null /\ read.touched # <<>>)
    /\ last' = [Step(call, NoOp, <<>>, "none")
                  EXCEPT !.args = args,
                         !.returned = read.returned,
                         !.touched = read.touched]
    /\ UNCHANGED <<facadeVars, indexing_data_, workerThread_, watcher, eventQueue,
                   fileSize, fileBytes, fileMTime, lastEnqueued, coalesced,
                   swallowed, readVars>>
    /\ UNCHANGED destroyed
    /\ UNCHANGED truncationPending

\* AbstractLogData::getLineString
GetLine(line) ==
    \E garbage \in GarbageOffsets(LineOutOfBound(indexing_data_, line), indexing_data_,
                                    line - 1) :
        ReadStep("getLine", <<line>>,
                 DoGetLineString(attached_file_, indexing_data_, codec_, line, garbage))

\* AbstractLogData::getExpandedLineString
GetExpandedLine(line) ==
    \E garbage \in GarbageOffsets(LineOutOfBound(indexing_data_, line), indexing_data_,
                                    line - 1) :
        ReadStep("getExpandedLine", <<line>>,
                 DoGetExpandedLineString(attached_file_, indexing_data_, codec_, line,
                                         garbage))

\* AbstractLogData::getLineLength
GetLineLength(line) ==
    \E garbage \in GarbageOffsets(LineOutOfBound(indexing_data_, line), indexing_data_,
                                    line - 1) :
        ReadStep("getLineLength", <<line>>,
                 DoGetLineLength(attached_file_, indexing_data_, codec_, line, garbage))

\* AbstractLogData::getLines
GetLines(first_line, number) ==
    \E garbage \in GarbageOffsets(RangeOutOfBound(indexing_data_, first_line, number),
                                    indexing_data_, first_line + number - 1) :
        ReadStep("getLines", <<first_line, number>>,
                 DoGetLines(attached_file_, indexing_data_, codec_, first_line, number,
                            garbage))

\* AbstractLogData::getExpandedLines
GetExpandedLines(first_line, number) ==
    \E garbage \in GarbageOffsets(RangeOutOfBound(indexing_data_, first_line, number),
                                    indexing_data_, first_line + number - 1) :
        ReadStep("getExpandedLines", <<first_line, number>>,
                 DoGetExpandedLines(attached_file_, indexing_data_, codec_, first_line,
                                    number, garbage))

\* ---------------------------------- line reads, one access at a time
\* The worker runs while a line read is in progress, so that a read is two
\* steps: the test against getNbLines, then the lookups in the Indexing
\* Data and the read of the file.  number is 1 for a single-line read.
ReadRefused(call, data, first_line, number) ==
    IF call = "getLine"
    THEN LineOutOfBound(data, first_line)
    ELSE RangeOutOfBound(data, first_line, number)

\* The highest line the read looks up once its test has let it through
\* (-1: the read of line 0 looks nothing up).
HighestLookup(call, first_line, number) ==
    IF call = "getLine" THEN first_line - 1 ELSE first_line + number - 1

\* What the read returns when every lookup is for a line that exists.
ReadAfterTest(call, file, data, codec, first_line, number) ==
    CASE call = "getLine" ->
            LineStringAfterTest(file, data, codec, first_line, 0)
      [] call = "getLines" ->
            LinesAfterTest(file, data, codec, first_line, number, 0)
      [] call = "getExpandedLines" ->
            LET lines == LinesAfterTest(file, data, codec, first_line, number, 0)
            IN  [returned |-> [k \in 1..Len(lines.returned) |->
                                  Untabify(lines.returned[k])],
                 touched |-> lines.touched]

ReaderCalls == {"getLine", "getLines", "getExpandedLines"}

\* The test of a line read.  A read that is refused returns at once.
ReaderCheck(call, first_line, number) ==
    /\ ~crashed
    /\ ~destroyed
    /\ reader.pc = "idle"
    /\ call = "getLine" => number = 1
    /\ IF ReadRefused(call, indexing_data_, first_line, number)
       THEN /\ reader' = reader
            /\ last' = [Step(call, NoOp, <<>>, "none")
                          EXCEPT !.args = <<first_line, number>>]
       ELSE /\ reader' = [pc |-> "checked", call |-> call, first |-> first_line,
                          last_line |-> first_line + number - 1]
            /\ last' = NoStep
    /\ UNCHANGED <<facadeVars, indexing_data_, workerThread_, watcher, eventQueue,
                   fileSize, fileBytes, fileMTime, lastEnqueued, coalesced,
                   swallowed, codec_, lifeVars>>
    /\ UNCHANGED truncationPending

\* What a process that looked up a line that does not exist goes on with:
\* it stops, or the read returns some value.
UndefinedOutcomes == {"crash", "empty", "text"}

\* The lookups and the read of the file.  A lookup of a line past the last
\* one is not defined.
ReaderLookup ==
    /\ ~crashed
    /\ reader.pc = "checked"
    /\ reader' = IdleReader
    /\ LET number == reader.last_line - reader.first + 1
           highest == HighestLookup(reader.call, reader.first, number)
       IN  IF highest < IndexingData_getNbLines(indexing_data_)
           THEN LET read == ReadAfterTest(reader.call, attached_file_,
                                          indexing_data_, codec_, reader.first,
                                          number)
                IN  /\ last' = [Step(reader.call, NoOp, <<>>, "none")
                                  EXCEPT !.args = <<reader.first, number>>,
                                         !.returned = read.returned,
                                         !.touched = read.touched]
                    /\ crashed' = crashed
           ELSE \E outcome \in UndefinedOutcomes :
                    /\ last' = [Step(reader.call, NoOp, <<>>, "none")
                                  EXCEPT !.args = <<reader.first, number>>,
                                         !.returned = IF outcome = "text"
                                                      THEN <<"a">>
                                                      ELSE <<>>,
                                         !.touched = <<"seek">>]
                    /\ crashed' = (outcome = "crash")
    /\ UNCHANGED <<facadeVars, indexing_data_, workerThread_, watcher, eventQueue,
                   fileSize, fileBytes, fileMTime, lastEnqueued, coalesced,
                   swallowed, codec_, destroyed>>
    /\ UNCHANGED truncationPending

\* ------------------------------------------------ LogData, slots
\* A fileChangedOnDisk that reports a truncation once, as it does a growth.
FileChange_TruncatedOnce(real_file_size, file_size, status) ==
    IF real_file_size < file_size
    THEN IF status # Truncated
         THEN [status |-> Truncated, operation |-> FullIndexOperation(NoEncoding)]
         ELSE [status |-> status, operation |-> NoOp]
    ELSE IF real_file_size = file_size
    THEN [status |-> status, operation |-> NoOp]
    ELSE IF status # DataAdded
    THEN [status |-> DataAdded, operation |-> PartialIndexOperation]
    ELSE [status |-> status, operation |-> NoOp]

\* A fileChangedOnDisk that asks for a partial reindex at every growth.
FileChange_EveryGrowth(real_file_size, file_size, status) ==
    IF real_file_size < file_size
    THEN [status |-> Truncated, operation |-> FullIndexOperation(NoEncoding)]
    ELSE IF real_file_size = file_size
    THEN [status |-> status, operation |-> NoOp]
    ELSE [status |-> DataAdded, operation |-> PartialIndexOperation]

\* The decision of LogData::fileChangedOnDisk: the new MonitoredFileStatus
\* and the operation to enqueue (NoOp: newOperation is left empty).
FileChange(real_file_size, file_size, status) ==
    IF real_file_size < file_size
    THEN [status |-> Truncated, operation |-> FullIndexOperation(NoEncoding)]
    ELSE IF real_file_size = file_size
    THEN [status |-> status, operation |-> NoOp]
    ELSE IF status # DataAdded
    THEN [status |-> DataAdded, operation |-> PartialIndexOperation]
    ELSE [status |-> status, operation |-> NoOp]

\* The file the slot goes on with: reopened when the size the name has on
\* disk differs from the size of the handle, or when the handle is not open.
FileAfterCheck(file, info_size) ==
    IF info_size # QFileSize(file) \/ ~file.open
    THEN ReOpenFile(file)
    ELSE file

\* LogData::fileChangedOnDisk, run for the notification at the head of the
\* event queue.  The filename the notification carries is only logged.
FileChangedOnDisk ==
    /\ ~crashed
    /\ ~destroyed
    /\ eventQueue # <<>>
    /\ Head(eventQueue).sig = "fileChanged"
    /\ ~attached_file_.null
    /\ eventQueue' = Tail(eventQueue)
    /\  LET file == FileAfterCheck(attached_file_, fileSize)
            file_size == IndexingData_getSize(indexing_data_)
            real_file_size == QFileSize(file)
            change == FileChange(real_file_size, file_size, fileChangedOnDisk_)
        IN  /\ attached_file_' = file
            /\ fileChangedOnDisk_' = change.status
            /\ IF change.operation # NoOp
               THEN /\ SetQueue(EnqueueOperation(Queue, change.operation))
                    /\ CountEnqueue(change.operation)
                    /\ lastModifiedDate_' = fileMTime
                    /\ last' = Step("fileChangedOnDisk", change.operation,
                                    <<FileChangedSignal(change.status)>>, "none")
               ELSE /\ UNCHANGED <<currentOperation_, nextOperation_, workerThread_,
                                   indexing_data_, coalesced, lastEnqueued,
                                   lastModifiedDate_>>
                    /\ last' = Step("fileChangedOnDisk", NoOp, <<>>, "none")
            /\ swallowed' = IF real_file_size > file_size /\ change.operation = NoOp
                            THEN TRUE
                            ELSE swallowed
    /\ UNCHANGED <<watcher, fileSize, fileBytes, fileMTime, crashed>>
    /\ UNCHANGED readVars
    /\ UNCHANGED destroyed
    /\ TrackTruncation(QFileSize(FileAfterCheck(attached_file_, fileSize))
                          < IndexingData_getSize(indexing_data_))

\* LogData::fileChangedOnDisk on a facade that holds no file: the slot does
\* not look at the file name it is given and dereferences attached_file_.
FileChangedOnDiskUnattached ==
    /\ ~crashed
    /\ ~destroyed
    /\ eventQueue # <<>>
    /\ Head(eventQueue).sig = "fileChanged"
    /\ attached_file_.null
    /\ eventQueue' = Tail(eventQueue)
    /\ crashed' = TRUE
    /\ last' = Step("fileChangedOnDisk", NoOp, <<>>, "none")
    /\ UNCHANGED <<facadeVars, indexing_data_, workerThread_, watcher, fileSize,
                   fileBytes, fileMTime, coalesced, lastEnqueued, swallowed,
                   truncationPending>>
    /\ UNCHANGED readVars
    /\ UNCHANGED destroyed

\* fileChangedOnDisk_ after LogData::indexingFinished
FinishedFileStatus(status, previous) == Unchanged

\* An indexingFinished that watches the file whatever the status.
FinishedWatcher_Always(status, w, file) ==
    FileWatcher_addFile(w, file.fileName)

\* the watch list after LogData::indexingFinished
FinishedWatcher(status, w, file) ==
    IF status = Successful THEN FileWatcher_addFile(w, file.fileName) ELSE w

\* lastModifiedDate_ after LogData::indexingFinished; the file exists.
FinishedModifiedDate(status, previous, mtime) ==
    IF status = Successful THEN mtime ELSE previous

\* An indexingFinished that forgets to empty nextOperation_.
AdvanceQueue_KeepNext(q) ==
    [current |-> q.next, next |-> q.next, wd |-> StartOperation(q.next, q.wd)]

\* An indexingFinished that starts the waiting operation without making it
\* the current one.
AdvanceQueue_ForgetCurrent(q) ==
    [current |-> NoOp, next |-> NoOp, wd |-> StartOperation(q.next, q.wd)]

\* The end of LogData::indexingFinished: the next operation becomes the
\* current one and is started.
AdvanceQueue(q) ==
    [current |-> q.next, next |-> NoOp, wd |-> StartOperation(q.next, q.wd)]

\* LogData::indexingFinished, run for the signal at the head of the event
\* queue.  assert( currentOperation_ ) aborts in a build with assertions and
\* is skipped in a build without.
IndexingFinished ==
    /\ ~crashed
    /\ ~destroyed
    /\ eventQueue # <<>>
    /\ Head(eventQueue).sig = "indexingFinished"
    /\ eventQueue' = Tail(eventQueue)
    /\ LET status == Head(eventQueue).arg IN
        IF status = Successful /\ attached_file_.null
        THEN /\ crashed' = TRUE
             /\ last' = Step("indexingFinished", NoOp, <<>>, "none")
             /\ UNCHANGED <<fileChangedOnDisk_, watcher, lastModifiedDate_,
                            currentOperation_, nextOperation_, workerThread_,
                            indexing_data_, coalesced, lastEnqueued, swallowed>>
        ELSE /\ fileChangedOnDisk_' = FinishedFileStatus(status, fileChangedOnDisk_)
             /\ watcher' = FinishedWatcher(status, watcher, attached_file_)
             /\ lastModifiedDate_' =
                    FinishedModifiedDate(status, lastModifiedDate_, fileMTime)
             /\ last' = [Step("indexingFinished", NoOp,
                              <<LoadingFinishedSignal(status)>>, "none")
                           EXCEPT !.coalesced = coalesced]
             /\ swallowed' = IF status = Successful THEN swallowed ELSE FALSE
             /\ \E assertions \in BOOLEAN :
                  IF currentOperation_ = NoOp /\ assertions
                  THEN /\ crashed' = TRUE
                       /\ UNCHANGED <<currentOperation_, nextOperation_, workerThread_,
                                      indexing_data_, coalesced, lastEnqueued>>
                  ELSE /\ crashed' = crashed
                       /\ SetQueue(AdvanceQueue(Queue))
                       /\ coalesced' = FALSE
                       /\ lastEnqueued' = NoOp
    /\ UNCHANGED <<attached_file_, fileSize, fileBytes, fileMTime>>
    /\ UNCHANGED readVars
    /\ UNCHANGED destroyed
    /\ TrackTruncation(FALSE)

\* ------------------------------------------ the worker's execution (4.3)
\* The worker takes up the oldest request.  A full reindex starts by
\* resetting the Indexing Data.
WorkerBegin ==
    /\ ~crashed
    /\ workerThread_.phase = "idle"
    /\ workerThread_.requests # <<>>
    /\ workerThread_' = [workerThread_ EXCEPT !.phase = "scanning"]
    /\ indexing_data_' = IF Head(workerThread_.requests).kind = "indexAll"
                         THEN IndexingData_reset(indexing_data_)
                         ELSE indexing_data_
    /\ last' = NoStep
    /\ UNCHANGED <<facadeVars, watcher, eventQueue, fileSize, fileBytes, fileMTime, crashed,
                   coalesced, lastEnqueued, swallowed>>
    /\ UNCHANGED readVars
    /\ UNCHANGED destroyed
    /\ UNCHANGED truncationPending

\* The offsets following the terminators found from offset pos on.
RECURSIVE ScanFrom(_, _)
ScanFrom(bytes, pos) ==
    IF pos >= Len(bytes)
    THEN <<>>
    ELSE IF bytes[pos + 1] = LF
    THEN <<pos + 1>> \o ScanFrom(bytes, pos + 1)
    ELSE ScanFrom(bytes, pos + 1)

\* The line ends a scan from offset start finds: one after each terminator
\* and, for trailing bytes without a terminator, the end of the file.
ScanLineEnds(bytes, start) ==
    ScanFrom(bytes, start) \o
        (IF Len(bytes) > start /\ bytes[Len(bytes)] # LF THEN <<Len(bytes)>> ELSE <<>>)

\* The offset a pass starts from: 0 for a full reindex, size_indexed for a
\* partial one.
ScanStart(request, data) ==
    IF request.kind = "indexAll" THEN 0 ELSE IndexingData_getSize(data)

\* The scan reaches the end of the file: what it has read is what the file
\* held at that moment.
WorkerReachEOF ==
    /\ ~crashed
    /\ workerThread_.phase = "scanning"
    /\ workerThread_' =
          [workerThread_ EXCEPT
             !.phase = "scanned",
             !.scanned = fileSize,
             !.found = ScanLineEnds(fileBytes,
                                    ScanStart(Head(workerThread_.requests),
                                              indexing_data_))]
    /\ last' = NoStep
    /\ UNCHANGED <<facadeVars, indexing_data_, watcher, eventQueue, fileSize, fileBytes,
                   fileMTime, crashed, coalesced, lastEnqueued, swallowed>>
    /\ UNCHANGED readVars
    /\ UNCHANGED destroyed
    /\ UNCHANGED truncationPending

\* The Indexing Data a successful pass commits: a full reindex covers what
\* was scanned, a partial one extends the index up to it.
Commit(request, data, scanned, found) ==
    IF request.kind = "indexAll"
    THEN [data EXCEPT !.size = scanned, !.line_ends = found,
                      !.forced = request.encoding]
    ELSE [data EXCEPT !.size = Max(@, scanned), !.line_ends = @ \o found]

\* The pass ends and indexing_finished(status) is posted to the facade: a
\* pass that reached the end of the file commits and reports Successful; an
\* interrupt, a read error or memory exhaustion end it at any point, and
\* what it accumulated is discarded.
WorkerFinish(status) ==
    /\ ~crashed
    /\ workerThread_.phase # "idle"
    /\ status = Successful => workerThread_.phase = "scanned"
    /\ indexing_data_' = IF status = Successful
                         THEN Commit(Head(workerThread_.requests), indexing_data_,
                                     workerThread_.scanned, workerThread_.found)
                         ELSE indexing_data_
    /\ workerThread_' = [workerThread_ EXCEPT !.phase = "idle",
                                               !.scanned = 0,
                                               !.found = <<>>,
                                               !.interruptRequested = FALSE,
                                               !.requests = Tail(@)]
    /\ eventQueue' = IF destroyed
                     THEN eventQueue
                     ELSE Append(eventQueue, IndexingFinishedEvent(status))
    /\ last' = NoStep
    /\ UNCHANGED <<facadeVars, watcher, fileSize, fileBytes, fileMTime, crashed,
                   coalesced, lastEnqueued, swallowed>>
    /\ UNCHANGED readVars
    /\ UNCHANGED destroyed
    /\ UNCHANGED truncationPending

\* ------------------------------------------ the watcher's execution (4.4)
\* The watcher reports the changes made to a watched file since its last
\* report, as one notification posted to the facade's thread.
\* The files the one watcher of the process watches for other facades.
OtherPaths == {"other.log"}

\* FileWatcher::getFileWatcher() is one object for the whole process and
\* every facade connects its fileChangedOnDisk to its fileChanged signal:
\* the change of a file watched for another facade is queued for this one.
OtherFileNotify(path) ==
    /\ ~crashed
    /\ ~destroyed
    /\ NbNotifications(eventQueue) < MaxEvents
    /\ eventQueue' = Append(eventQueue, FileChangedEvent(path))
    /\ last' = NoStep
    /\ UNCHANGED <<facadeVars, indexing_data_, workerThread_, watcher, fileSize,
                   fileBytes, fileMTime, crashed, coalesced, lastEnqueued,
                   swallowed, truncationPending>>
    /\ UNCHANGED readVars
    /\ UNCHANGED destroyed

WatcherNotify ==
    /\ ~crashed
    /\ ~destroyed
    /\ watcher.dirty
    /\ NbNotifications(eventQueue) < MaxEvents
    /\ eventQueue' = Append(eventQueue, FileChangedEvent(attached_file_.fileName))
    /\ watcher' = [watcher EXCEPT !.dirty = FALSE]
    /\ last' = NoStep
    /\ UNCHANGED <<facadeVars, indexing_data_, workerThread_, fileSize, fileBytes, fileMTime,
                   crashed, coalesced, lastEnqueued, swallowed>>
    /\ UNCHANGED readVars
    /\ UNCHANGED destroyed
    /\ UNCHANGED truncationPending

\* ------------------------------------------------ the environment
\* A change of the file the attached path names: the watcher sees it when
\* the path is on its list.
FileChanges(newSize, replaced) ==
    /\ ~crashed
    /\ fileMTime < MaxMTime
    /\ fileSize' = newSize
    /\ fileBytes' = EmptyLines(newSize)
    /\ fileMTime' = fileMTime + 1
    /\ attached_file_' = IF replaced THEN Detach(attached_file_) ELSE attached_file_
    /\ watcher' = [watcher EXCEPT
                     !.dirty = @ \/ attached_file_.fileName \in watcher.files]
    /\ swallowed' = FALSE
    /\ last' = NoStep
    /\ UNCHANGED <<currentOperation_, nextOperation_, fileChangedOnDisk_,
                   lastModifiedDate_, indexing_data_, workerThread_, eventQueue,
                   crashed, coalesced, lastEnqueued>>
    /\ UNCHANGED readVars
    /\ UNCHANGED destroyed
    /\ UNCHANGED truncationPending

\* Data is appended to the file.
Grow ==
    /\ fileSize < MaxSize
    /\ FileChanges(fileSize + 1, FALSE)

\* The file is cut in place.
Truncate ==
    \E n \in 0..MaxSize : n < fileSize /\ FileChanges(n, FALSE)

\* The file is moved away and another one takes its name (log rotation).
Rotate ==
    \E n \in 0..MaxSize : FileChanges(n, TRUE)

Next ==
    \/ \E fileName \in Paths : AttachFile(fileName)
    \/ InterruptLoading
    \/ Reload(NoEncoding)
    \/ ReloadUnattached
    \/ Destroy
    \/ FileChangedOnDisk
    \/ IndexingFinished
    \/ WorkerBegin
    \/ WorkerReachEOF
    \/ \E status \in LoadingStatus : WorkerFinish(status)
    \/ WatcherNotify
    \/ Grow
    \/ Truncate
    \/ Rotate

Spec == Init /\ [][Next]_vars

\* ------------------------------------------------ reading a file
\* A facade is constructed; the file it will be given holds any bytes.
ReadInit ==
    /\ FacadeInit
    /\ fileBytes \in Contents(MaxLen)
    /\ fileSize = Len(fileBytes)

\* The file is attached and indexed, and its lines are read; the file does
\* not change.
ReadNext ==
    \/ \E fileName \in Paths : AttachFile(fileName)
    \/ WorkerBegin
    \/ WorkerReachEOF
    \/ \E status \in LoadingStatus : WorkerFinish(status)
    \/ IndexingFinished
    \/ \E line \in LineNumbers : GetLine(line)
    \/ \E line \in LineNumbers : GetExpandedLine(line)
    \/ \E line \in LineNumbers : GetLineLength(line)
    \/ \E first_line \in LineNumbers, number \in LineNumbers :
            GetLines(first_line, number)
    \/ \E first_line \in LineNumbers, number \in LineNumbers :
            GetExpandedLines(first_line, number)

ReadSpec == ReadInit /\ [][ReadNext]_vars

\* ------------------------------------------------ reading during a reload
\* The file is attached, indexed and reloaded while a reader reads its
\* lines; the file does not change.
SnapshotNext ==
    \/ \E fileName \in Paths : AttachFile(fileName)
    \/ Reload(NoEncoding)
    \/ WorkerBegin
    \/ WorkerReachEOF
    \/ \E status \in LoadingStatus : WorkerFinish(status)
    \/ IndexingFinished
    \/ \E call \in ReaderCalls, first_line \in LineNumbers, number \in LineNumbers :
            ReaderCheck(call, first_line, number)
    \/ ReaderLookup

SnapshotSpec == ReadInit /\ [][SnapshotNext]_vars

\* ------------------------------------------------ several facades
\* The facade in a process where other facades have files watched.
SharedWatcherNext ==
    \/ Next
    \/ \E path \in OtherPaths : OtherFileNotify(path)
    \/ FileChangedOnDiskUnattached

SharedWatcherSpec == Init /\ [][SharedWatcherNext]_vars

\* ------------------------------------------------ encodings
\* The file is attached and reloaded with and without a forced encoding
\* while the display encoding is set; the file does not change.
EncodingNext ==
    \/ \E fileName \in Paths : AttachFile(fileName)
    \/ \E forcedEncoding \in Encodings \cup {NoEncoding} : Reload(forcedEncoding)
    \/ ReloadUnattached
    \/ \E encoding \in DisplayEncodings : SetDisplayEncoding(encoding)
    \/ InterruptLoading
    \/ WorkerBegin
    \/ WorkerReachEOF
    \/ \E status \in LoadingStatus : WorkerFinish(status)
    \/ IndexingFinished

EncodingSpec == Init /\ [][EncodingNext]_vars

\* ------------------------------------------------------------- claims
\* The pass the worker is asked for when an operation is started.
RequestOf(operation) ==
    IF operation.type = "PartialIndex"
    THEN IndexAdditionalRequest
    ELSE IndexAllRequest(IF operation.type = "Attach" THEN NoEncoding
                                                      ELSE operation.arg)

\* The step hands this operation, and nothing else, to the worker.
Starts(operation) ==
    workerThread_'.requests = Append(workerThread_.requests, RequestOf(operation))

\* The step hands nothing to the worker.
StartsNothing ==
    workerThread_'.requests = workerThread_.requests

\* the number of indexingFinished signals waiting in an event queue
NbFinished(queue) ==
    Cardinality({i \in 1..Len(queue) : queue[i].sig = "indexingFinished"})

\* C1: attachFile called on a facade that already holds a file throws
\* CantReattachErr, enqueues nothing and leaves the attached file, the
\* current and the next operation (and the worker) as they were.
C1_ReattachFails ==
    [][ (last'.call = "attachFile" /\ ~attached_file_.null) =>
            /\ last'.thrown = "CantReattachErr"
            /\ last'.enqueued = NoOp
            /\ attached_file_' = attached_file_
            /\ currentOperation_' = currentOperation_
            /\ nextOperation_' = nextOperation_
            /\ workerThread_' = workerThread_ ]_vars

C1_Witness ==
    /\ last.call = "attachFile"
    /\ last.thrown = "CantReattachErr"
    /\ ~attached_file_.null

\* C2: an operation enqueued while there is no current operation becomes
\* the current one and is handed to the worker in the same step; enqueued
\* while there is a current operation it replaces the next operation,
\* whatever that was, the current one stays and nothing is handed to the
\* worker.
C2_EnqueueRule ==
    [][ last'.enqueued # NoOp =>
            IF currentOperation_ = NoOp
            THEN /\ currentOperation_' = last'.enqueued
                 /\ nextOperation_' = nextOperation_
                 /\ Starts(last'.enqueued)
            ELSE /\ nextOperation_' = last'.enqueued
                 /\ currentOperation_' = currentOperation_
                 /\ StartsNothing ]_vars

\* An operation has just replaced another one that was waiting.
C2_Witness ==
    /\ last.enqueued # NoOp
    /\ coalesced
    /\ nextOperation_ = last.enqueued
    /\ currentOperation_ # NoOp

\* C3: indexingFinished, whatever the status, makes the next operation the
\* current one and empties the next; a non-empty new current operation is
\* handed to the worker, otherwise both are empty and nothing is started.
C3_FinishedAdvances ==
    [][ last'.call = "indexingFinished" =>
            /\ currentOperation_' = nextOperation_
            /\ nextOperation_' = NoOp
            /\ IF nextOperation_ # NoOp
               THEN Starts(nextOperation_)
               ELSE StartsNothing /\ currentOperation_' = NoOp ]_vars

\* A pass that did not succeed has been followed by the waiting operation.
C3_Witness ==
    /\ last.call = "indexingFinished"
    /\ last.emitted = <<LoadingFinishedSignal(Interrupted)>>
    /\ currentOperation_ # NoOp
    /\ workerThread_.requests = <<RequestOf(currentOperation_)>>

\* C4: when operations were enqueued while one was running, the end of the
\* running one starts exactly one operation, the last one enqueued, and
\* leaves nothing waiting; when none was enqueued, the end of the running
\* one leaves the queue idle.
C4_Coalescing ==
    [][ last'.call = "indexingFinished" =>
            IF lastEnqueued # NoOp
            THEN /\ currentOperation_' = lastEnqueued
                 /\ nextOperation_' = NoOp
                 /\ workerThread_'.requests = <<RequestOf(lastEnqueued)>>
            ELSE /\ currentOperation_' = NoOp
                 /\ nextOperation_' = NoOp
                 /\ workerThread_'.requests = <<>> ]_vars

\* Several operations were enqueued during a run, and its end has started
\* one operation.
C4_Witness ==
    /\ last.call = "indexingFinished"
    /\ last.coalesced
    /\ currentOperation_ # NoOp
    /\ nextOperation_ = NoOp
    /\ Len(workerThread_.requests) = 1

\* C5: at most one operation is in the hands of the worker or has its
\* indexingFinished still on its way to the facade; hence an operation is
\* started only when every operation started before has delivered its
\* indexingFinished.
C5_OneAtATime ==
    Len(workerThread_.requests) + NbFinished(eventQueue) <= 1

\* An operation was started by the handler of the previous one's
\* indexingFinished while a notification was waiting.
C5_Witness ==
    /\ last.call = "indexingFinished"
    /\ Len(workerThread_.requests) = 1
    /\ NbNotifications(eventQueue) = 1
    /\ NbFinished(eventQueue) = 0

\* The size of the source the notification handler compares with the
\* indexed size: that of the handle it holds once it has checked it against
\* the size on disk and reopened it if needed.
SourceSizeAfterCheck == QFileSize(FileAfterCheck(attached_file_, fileSize))

\* The step handles a watcher notification.
HandlesNotification == last'.call = "fileChangedOnDisk"

\* C6: a notification that finds the source smaller than the indexed size
\* sets the state to Truncated, enqueues a FullIndex without forced encoding
\* and emits fileChanged(Truncated), whatever the state was.
C6_Truncation ==
    [][ (HandlesNotification
            /\ SourceSizeAfterCheck < IndexingData_getSize(indexing_data_)) =>
            /\ fileChangedOnDisk_' = Truncated
            /\ last'.enqueued = FullIndexOperation(NoEncoding)
            /\ last'.emitted = <<FileChangedSignal(Truncated)>> ]_vars

\* A truncation has been reported while an operation was running: the
\* FullIndex waits behind it.
C6_Witness ==
    /\ last.call = "fileChangedOnDisk"
    /\ last.emitted = <<FileChangedSignal(Truncated)>>
    /\ fileChangedOnDisk_ = Truncated
    /\ nextOperation_ = FullIndexOperation(NoEncoding)

\* C7: a notification that finds the source larger than the indexed size
\* enqueues a PartialIndex, sets the state to DataAdded and emits
\* fileChanged(DataAdded) when the state was not DataAdded; when the state
\* was DataAdded, or when the sizes are equal, it leaves the state, the
\* current and the next operation and the modification date as they were
\* and emits nothing.
C7_Growth ==
    [][ HandlesNotification =>
          LET real_file_size == SourceSizeAfterCheck
              file_size == IndexingData_getSize(indexing_data_)
          IN  /\ (real_file_size > file_size /\ fileChangedOnDisk_ # DataAdded) =>
                    /\ last'.enqueued = PartialIndexOperation
                    /\ fileChangedOnDisk_' = DataAdded
                    /\ last'.emitted = <<FileChangedSignal(DataAdded)>>
              /\ (\/ real_file_size > file_size /\ fileChangedOnDisk_ = DataAdded
                  \/ real_file_size = file_size) =>
                    /\ last'.enqueued = NoOp
                    /\ last'.emitted = <<>>
                    /\ fileChangedOnDisk_' = fileChangedOnDisk_
                    /\ currentOperation_' = currentOperation_
                    /\ nextOperation_' = nextOperation_
                    /\ lastModifiedDate_' = lastModifiedDate_ ]_vars

\* A growth has been ignored because the state was DataAdded, with a
\* modification date older than the file's.
C7_Witness ==
    /\ last.call = "fileChangedOnDisk"
    /\ last.emitted = <<>>
    /\ fileChangedOnDisk_ = DataAdded
    /\ fileSize > IndexingData_getSize(indexing_data_)
    /\ lastModifiedDate_ # fileMTime

\* C8: the handler of a Successful indexingFinished leaves the state
\* Unchanged and the attached file's name on the watch list; the watch list
\* is empty at first and gains a path in no other step (the destructor
\* takes the path off it).
C8_ArmedOnSuccess ==
    /\ watcher.files = {}
    /\ [][ /\ (last'.call = "indexingFinished"
                 /\ Head(eventQueue) = IndexingFinishedEvent(Successful)) =>
                    /\ fileChangedOnDisk_' = Unchanged
                    /\ attached_file_'.fileName \in watcher'.files
           /\ ~(watcher'.files \subseteq watcher.files) =>
                    /\ last'.call = "indexingFinished"
                    /\ Head(eventQueue) = IndexingFinishedEvent(Successful) ]_vars

\* A successful pass that followed a reported growth has been handled.
C8_Witness ==
    /\ last.call = "indexingFinished"
    /\ last.emitted = <<LoadingFinishedSignal(Successful)>>
    /\ fileChangedOnDisk_ = Unchanged
    /\ watcher.files = {attached_file_.fileName}
    /\ IndexingData_getSize(indexing_data_) > 0

\* C9: the handler of an indexingFinished whose status is Interrupted or
\* NoMemory leaves the state (Unchanged, DataAdded or Truncated) as it was.
C9_LatchKept ==
    [][ (last'.call = "indexingFinished"
            /\ Head(eventQueue).arg \in {Interrupted, NoMemory}) =>
            fileChangedOnDisk_' = fileChangedOnDisk_ ]_vars

\* C10: when a growth notification was ignored because the state was
\* DataAdded, the file has not changed since and every operation has
\* finished successfully, with no signal and no report of the watcher left
\* to handle, the indexed size is the size of the file.
C10_GrowthCovered ==
    (/\ swallowed
     /\ currentOperation_ = NoOp
     /\ nextOperation_ = NoOp
     /\ workerThread_.requests = <<>>
     /\ eventQueue = <<>>
     /\ ~watcher.dirty
     /\ ~crashed)
        => IndexingData_getSize(indexing_data_) = fileSize

\* C11: reload on an attached facade requests the interruption of the
\* worker, then reopens the file, then enqueues FullIndex(forcedEncoding),
\* in that order; when it returns that FullIndex is the current operation
\* (started) if there was none, the next operation otherwise, and a pass
\* that was running has been asked to stop.
C11_ReloadOrder ==
    [][ \A forcedEncoding \in Encodings \cup {NoEncoding} :
          Reload(forcedEncoding) =>
            /\ last'.order = <<"interrupt", "reOpenFile", "enqueueOperation">>
            /\ attached_file_' = OpenFile(attached_file_.fileName)
            /\ workerThread_'.interruptRequested = (workerThread_.phase # "idle")
            /\ IF currentOperation_ = NoOp
               THEN /\ currentOperation_' = FullIndexOperation(forcedEncoding)
                    /\ nextOperation_' = nextOperation_
                    /\ Starts(FullIndexOperation(forcedEncoding))
               ELSE /\ nextOperation_' = FullIndexOperation(forcedEncoding)
                    /\ currentOperation_' = currentOperation_
                    /\ StartsNothing ]_vars

\* reload with a forced encoding was called during a pass: the pass has been
\* asked to stop and the FullIndex waits behind it.
C11_Witness ==
    /\ last.call = "reload"
    /\ last.order = <<"interrupt", "reOpenFile", "enqueueOperation">>
    /\ workerThread_.interruptRequested
    /\ workerThread_.phase = "scanning"
    /\ nextOperation_ = FullIndexOperation("UTF-16")

\* The file has been attached and indexed successfully, and nothing is
\* running.
AttachedAndIndexed ==
    /\ ~attached_file_.null
    /\ currentOperation_ = NoOp
    /\ eventQueue = <<>>
    /\ attached_file_.fileName \in watcher.files

\* The number of terminators in a content.
NbTerminators(bytes) == Cardinality({p \in 1..Len(bytes) : bytes[p] = LF})

\* The bytes that follow the last terminator of a content.
TrailingBytes(bytes) ==
    LET ends == {p \in 1..Len(bytes) : bytes[p] = LF}
        start == IF ends = {} THEN 0 ELSE CHOOSE p \in ends : \A q \in ends : q <= p
    IN  [i \in 1..(Len(bytes) - start) |-> bytes[start + i]]

\* C12: once a file whose last bytes have no terminator is attached and
\* indexed, nb_lines counts these bytes as a line (one line per terminator,
\* and one more) and get_line(nb_lines - 1) returns all of them, decoded.
C12_TrailingLine ==
    [][ (/\ last'.call = "getLine"
         /\ AttachedAndIndexed
         /\ TrailingBytes(fileBytes) # <<>>
         /\ last'.args = <<DoGetNbLine(indexing_data_) - 1>>) =>
            /\ DoGetNbLine(indexing_data_) = NbTerminators(fileBytes) + 1
            /\ last'.returned = ToUnicode(codec_, TrailingBytes(fileBytes)) ]_vars

\* The step is a range read of at least one line that ends within nb_lines.
ReadsValidRange(call) ==
    /\ last'.call = call
    /\ ~attached_file_.null
    /\ last'.args[2] >= 1
    /\ last'.args[1] + last'.args[2] <= DoGetNbLine(indexing_data_)

\* C13: a range read of lines that all exist returns, for each line of the
\* range, what the single-line read of that line returns; and so do the
\* expanded variants.
C13_RangeAgrees ==
    [][ /\ ReadsValidRange("getLines") =>
            /\ Len(last'.returned) = last'.args[2]
            /\ \A k \in 0..(last'.args[2] - 1) :
                  last'.returned[k + 1] =
                    DoGetLineString(attached_file_, indexing_data_, codec_,
                                    last'.args[1] + k, 0).returned
        /\ ReadsValidRange("getExpandedLines") =>
            /\ Len(last'.returned) = last'.args[2]
            /\ \A k \in 0..(last'.args[2] - 1) :
                  last'.returned[k + 1] =
                    DoGetExpandedLineString(attached_file_, indexing_data_, codec_,
                                            last'.args[1] + k, 0).returned ]_vars

\* The step is a single-line read of a line at or past nb_lines.
ReadsLinePastEnd ==
    /\ last'.call \in {"getLine", "getExpandedLine", "getLineLength"}
    /\ last'.args[1] >= DoGetNbLine(indexing_data_)

\* The step is a range read whose range goes past nb_lines.
ReadsRangePastEnd ==
    /\ last'.call \in {"getLines", "getExpandedLines"}
    /\ last'.args[1] + last'.args[2] > DoGetNbLine(indexing_data_)

\* C14: a single-line read of a line at or past nb_lines, and a range read
\* whose range goes past nb_lines, return empty (zero for a length) and
\* make no call on the attached file; a facade that was never attached has
\* no line, so that every read on it is one of these.
C14_OutOfRange ==
    [][ /\ (ReadsLinePastEnd \/ ReadsRangePastEnd) =>
            /\ last'.returned = IF last'.call = "getLineLength" THEN 0 ELSE <<>>
            /\ last'.touched = <<>>
            /\ ~crashed'
        /\ attached_file_.null => DoGetNbLine(indexing_data_) = 0 ]_vars

\* A range that ends one line past the last line of an indexed file of
\* several lines has been asked for.
C14_Witness ==
    /\ last.call = "getLines"
    /\ DoGetNbLine(indexing_data_) >= 2
    /\ last.args[2] >= 1
    /\ last.args[1] + last.args[2] = DoGetNbLine(indexing_data_) + 1
    /\ last.returned = <<>>
    /\ last.touched = <<>>

\* C15: the destructor leaves the worker stopped (no pass running and none
\* requested) and the attached path off the watch list; once the facade is
\* destroyed, the worker takes no step and Indexing Data does not change.
C15_CleanDestruction ==
    [][ /\ last'.call = "~LogData" =>
            /\ workerThread_'.phase = "idle"
            /\ workerThread_'.requests = <<>>
            /\ attached_file_.fileName \notin watcher'.files
        /\ destroyed =>
            /\ workerThread_' = workerThread_
            /\ indexing_data_' = indexing_data_ ]_vars

\* C16: the lookups of a line read are made in an Indexing Data that still
\* has the lines the test of the read found: the highest line looked up is
\* below nb_lines when it is looked up.
C16_ConsistentSnapshot ==
    [][ (reader.pc = "checked" /\ reader'.pc = "idle") =>
            HighestLookup(reader.call, reader.first,
                          reader.last_line - reader.first + 1)
                < IndexingData_getNbLines(indexing_data_) ]_vars

C18_AssertHolds ==
    [][ last'.call = "indexingFinished" => currentOperation_ # NoOp ]_vars

\* The end of an interrupted pass was handled, and the operation that was
\* waiting was made current and started.
C18_Witness ==
    /\ last.call = "indexingFinished"
    /\ last.emitted = <<LoadingFinishedSignal(Interrupted)>>
    /\ ~crashed
    /\ currentOperation_ # NoOp
    /\ nextOperation_ = NoOp
    /\ workerThread_.requests # <<>>

\* C19: from the notification that finds the file shorter than the index and
\* enqueues a FullIndex, until a full reindex is handed to the worker, no
\* PartialIndex is handed to the worker and a FullIndex that is waiting is
\* not replaced by a PartialIndex.
C19_TruncationKept ==
    [][ truncationPending =>
            /\ ~Starts(PartialIndexOperation)
            /\ nextOperation_ = FullIndexOperation(NoEncoding)
                    => nextOperation_' # PartialIndexOperation ]_vars

\* C20: whenever the facade handles a notification of the watcher it holds
\* a file, also when the watcher of the process reports the change of a file
\* watched for another facade.
C20_HandlerAttached ==
    [][ last'.call = "fileChangedOnDisk" => ~attached_file_.null ]_vars

====
